---- MODULE Spec2Model ----
(***************************************************************************)
(* Model of the planor-template authentication core:                       *)
(*   - the auth store (stores/auth_store: useAuthStore),                   *)
(*   - the backend auth client as the store and the flows see it           *)
(*     (current session, registered listeners, notifications in flight),   *)
(*   - the sign-in / sign-out flows of lib/auth.ts,                        *)
(*   - the routing of app/_layout and app/index, the login screen with its *)
(*     Google and Apple sign-in buttons, sign-out on the home screen,      *)
(*   - the create-planor-app command line tool.                            *)
(***************************************************************************)
EXTENDS Integers, Sequences, FiniteSets, TLC

(***************************************************************************)
(* Values                                                                  *)
(***************************************************************************)
\* JavaScript null / undefined (an absent session, user, message, url).
Null == "null"

\* The sessions the backend can hand out; each is owned by one user.
Sessions == {"s1", "s2"}
SessionOrNull == Sessions \cup {Null}

\* session.user
Owner(s) == IF s = "s1" THEN "alice" ELSE "bob"

\* Bounds of the model.
MaxInit == 2   \* calls of initialize()
MaxQueue == 2  \* notifications in flight

InitCalls == 1..MaxInit

VARIABLES
    session,          \* AuthState.session
    user,             \* AuthState.user
    isLoading,        \* AuthState.isLoading
    isAuthenticated,  \* AuthState.isAuthenticated
    init,             \* init[i]: position of the i-th initialize() call, what it fetched, and
                      \* (history) whether setSession() or clearAuth() ran while it was pending
    backendSession,   \* the backend client's current session
    listeners,        \* number of callbacks registered with onAuthStateChange
    queue,            \* session-change notifications emitted and not yet delivered
    lastOp,           \* history: the store operation that ran last
    lastArg,          \* history: the session that operation was given (clearAuth: replaced)
    flow,             \* the invocation of a lib/auth.ts function in progress, or the last one
    segments,         \* useSegments()[0]: the route group the navigator shows
    router,           \* the component that navigated last and the router.replace calls it made
    gateSeen,         \* the dependencies the effect of useProtectedRoute ran with last
    googleButton,     \* GoogleSignInButton: its isLoading state, the position of handlePress
                      \* and the number of its signInWithGoogle() calls not yet settled
    appleButton,      \* AppleSignInButton: the same, and its isAvailable state
    reported,         \* the callbacks the last finished handlePress made
    cli               \* create-planor-app: the run in progress or the last one, and the
                      \* directories that exist

snapshot == <<session, user, isLoading, isAuthenticated>>
backend  == <<backendSession, listeners, queue>>
history  == <<lastOp, lastArg>>
buttons  == <<googleButton, appleButton, reported>>
ui       == <<segments, router, gateSeen, googleButton, appleButton, reported>>
app      == <<snapshot, init, backend, history, flow, ui>>
vars == <<session, user, isLoading, isAuthenticated, init,
          backendSession, listeners, queue, lastOp, lastArg, flow,
          segments, router, gateSeen, googleButton, appleButton, reported, cli>>

(***************************************************************************)
(* The store                                                               *)
(***************************************************************************)
\* session?.user ?? null
SessionUser(s) == IF s = Null THEN Null ELSE Owner(s)

\* !!session
Truthy(s) == s # Null

\* The record of an operation in the history variables.
Record(op, arg) ==
    /\ lastOp' = op
    /\ lastArg' = arg

\* set({ session, user: session?.user ?? null, isAuthenticated: !!session })
SetAuth(s) ==
    /\ session' = s
    /\ user' = SessionUser(s)
    /\ isAuthenticated' = Truthy(s)

\* Mutant of initializeCall: initialize() shows the loading state again while it
\* fetches.
initializeCallSetsLoading(i) ==
    /\ init[i].pc = "idle"
    /\ IF i = 1 THEN TRUE ELSE init[i - 1].pc # "idle"
    /\ init' = [init EXCEPT ![i].pc = "getSession"]
    /\ isLoading' = TRUE
    /\ UNCHANGED <<session, user, isAuthenticated, backend, history, flow, ui, cli>>

\* initialize(), up to its first await: supabase.auth.getSession() is called.
initializeCall(i) ==
    /\ init[i].pc = "idle"
    /\ IF i = 1 THEN TRUE ELSE init[i - 1].pc # "idle"
    /\ init' = [init EXCEPT ![i].pc = "getSession"]
    /\ UNCHANGED <<snapshot, backend, history, flow, ui, cli>>

\* supabase.auth.getSession() resolves with the backend's current session.
getSessionResolves(i) ==
    /\ init[i].pc = "getSession"
    /\ init' = [init EXCEPT ![i].pc = "resolved", ![i].fetched = backendSession]
    /\ UNCHANGED <<snapshot, backend, history, flow, ui, cli>>

\* supabase.auth.getSession() rejects.
getSessionRejects(i) ==
    /\ init[i].pc = "getSession"
    /\ init' = [init EXCEPT ![i].pc = "rejected"]
    /\ UNCHANGED <<snapshot, backend, history, flow, ui, cli>>

\* Mutant of initializeResume: the listener is registered by the first call only.
initializeResumeSubscribesOnce(i) ==
    /\ init[i].pc = "resolved"
    /\ SetAuth(init[i].fetched)
    /\ isLoading' = FALSE
    /\ listeners' = IF listeners = 0 THEN 1 ELSE listeners
    /\ init' = [init EXCEPT ![i].pc = "done"]
    /\ Record("initialize", init[i].fetched)
    /\ UNCHANGED <<backendSession, queue, flow, ui, cli>>

\* Mutant of initializeResume: a session set while the fetch was pending is kept.
initializeResumeKeepsSession(i) ==
    /\ init[i].pc = "resolved"
    /\ IF session = Null THEN SetAuth(init[i].fetched)
                         ELSE UNCHANGED <<session, user, isAuthenticated>>
    /\ isLoading' = FALSE
    /\ listeners' = listeners + 1
    /\ init' = [init EXCEPT ![i].pc = "done"]
    /\ Record("initialize", init[i].fetched)
    /\ UNCHANGED <<backendSession, queue, flow, ui, cli>>

\* initialize() after the await: the snapshot is set from the fetched session and
\* the listener is registered; the call resolves.
initializeResume(i) ==
    /\ init[i].pc = "resolved"
    /\ SetAuth(init[i].fetched)
    /\ isLoading' = FALSE
    /\ listeners' = listeners + 1
    /\ init' = [init EXCEPT ![i].pc = "done"]
    /\ Record("initialize", init[i].fetched)
    /\ UNCHANGED <<backendSession, queue, flow, ui, cli>>

\* Mutant of initializeCatch: a failed fetch resets the snapshot.
initializeCatchResets(i) ==
    /\ init[i].pc = "rejected"
    /\ SetAuth(Null)
    /\ isLoading' = FALSE
    /\ init' = [init EXCEPT ![i].pc = "done"]
    /\ Record("initializeFailed", Null)
    /\ UNCHANGED <<backend, flow, ui, cli>>

\* Mutant of initializeCatch: the listener is registered after a failed fetch too.
initializeCatchSubscribes(i) ==
    /\ init[i].pc = "rejected"
    /\ isLoading' = FALSE
    /\ listeners' = listeners + 1
    /\ init' = [init EXCEPT ![i].pc = "done"]
    /\ Record("initializeFailed", Null)
    /\ UNCHANGED <<session, user, isAuthenticated, backendSession, queue, flow, ui, cli>>

\* initialize(), the catch block: only isLoading is cleared; the call resolves.
initializeCatch(i) ==
    /\ init[i].pc = "rejected"
    /\ isLoading' = FALSE
    /\ init' = [init EXCEPT ![i].pc = "done"]
    /\ Record("initializeFailed", Null)
    /\ UNCHANGED <<session, user, isAuthenticated, backend, flow, ui, cli>>

\* Mutant of onAuthStateChange: a notification that does not change whether there
\* is a session is dropped.
onAuthStateChangeDiffing ==
    /\ queue # <<>>
    /\ IF Truthy(Head(queue)) # isAuthenticated
       THEN SetAuth(Head(queue))
       ELSE UNCHANGED <<session, user, isAuthenticated>>
    /\ queue' = Tail(queue)
    /\ Record("notification", Head(queue))
    /\ UNCHANGED <<isLoading, init, backendSession, listeners, flow, ui, cli>>

\* The callback given to onAuthStateChange, run for the oldest notification.
onAuthStateChange ==
    /\ queue # <<>>
    /\ SetAuth(Head(queue))
    /\ queue' = Tail(queue)
    /\ Record("notification", Head(queue))
    /\ UNCHANGED <<isLoading, init, backendSession, listeners, flow, ui, cli>>

\* History: the pending initialize() calls have seen a direct write of the snapshot.
Raced ==
    init' = [i \in InitCalls |->
                IF init[i].pc \in {"getSession", "resolved", "rejected"}
                THEN [init[i] EXCEPT !.raced = TRUE]
                ELSE init[i]]

\* Mutant of setSession: the user of the previous session is kept.
setSessionKeepsUser(s) ==
    /\ session' = s
    /\ isAuthenticated' = Truthy(s)
    /\ user' = user
    /\ Record("setSession", s)
    /\ Raced
    /\ UNCHANGED <<isLoading, backend, flow, ui, cli>>

setSession(s) ==
    /\ SetAuth(s)
    /\ Record("setSession", s)
    /\ Raced
    /\ UNCHANGED <<isLoading, backend, flow, ui, cli>>

\* Mutant of clearAuth: the user is not reset.
clearAuthKeepsUser ==
    /\ session' = Null
    /\ isAuthenticated' = FALSE
    /\ user' = user
    /\ Record("clearAuth", session)
    /\ Raced
    /\ UNCHANGED <<isLoading, backend, flow, ui, cli>>

clearAuth ==
    /\ session' = Null
    /\ user' = Null
    /\ isAuthenticated' = FALSE
    /\ Record("clearAuth", session)
    /\ Raced
    /\ UNCHANGED <<isLoading, backend, flow, ui, cli>>

(***************************************************************************)
(* The backend auth client                                                 *)
(***************************************************************************)
\* n copies of s
Copies(s, n) == [k \in 1..n |-> s]

\* The backend's session becomes s and every registered listener is notified.
Emit(s) ==
    /\ Len(queue) + listeners <= MaxQueue
    /\ backendSession' = s
    /\ queue' = queue \o Copies(s, listeners)
    /\ UNCHANGED listeners

\* A session change that no flow of this program started: a token refresh, an
\* expiry, a session restored from storage.
backendSessionChange(s) ==
    /\ Emit(s)
    /\ UNCHANGED <<snapshot, init, history, flow, ui, cli>>

(***************************************************************************)
(* Strings, optional values, thrown values                                 *)
(*                                                                         *)
(* A string is the sequence of its tokens (words, delimiters, hex digits); *)
(* '' is <<>>.  An optional value is None (null or undefined) or Some(v).  *)
(***************************************************************************)
None == <<>>
Some(v) == <<v>>

\* !!v of an optional string: neither null, undefined nor ''
TruthyStr(o) == o # None /\ o[1] # <<>>

\* str.includes(token)
Includes(str, token) == \E k \in DOMAIN str : str[k] = token

Last(seq) == seq[Len(seq)]

\* The literal messages of lib/auth.ts.
MsgAppleUnavailable == <<"Apple", "Sign-In", "is", "not", "available", "on", "this", "device">>
MsgNoIdentityToken == <<"No", "identity", "token", "received", "from", "Apple">>
MsgCancelled == <<"Sign-in", "was", "cancelled">>
MsgUnknown == <<"Unknown", "error", "occurred">>
MsgNoOAuthUrl == <<"No", "OAuth", "URL", "returned", "from", "Supabase">>
MsgNoTokens == <<"No", "authentication", "tokens", "received">>
MsgAuthFailed == <<"Authentication", "failed">>

\* AuthResult
Success == [success |-> TRUE, error |-> None]
Failure(msg) == [success |-> FALSE, error |-> Some(msg)]

\* What an awaited call can throw: isError is `instanceof Error`, nullish is a
\* thrown null or undefined, code is the value's `code` property.
CancelCode == <<"ERR_REQUEST_CANCELED">>
NoThrow == [isError |-> FALSE, nullish |-> FALSE, message |-> <<>>, code |-> None]
Thrown == {
    [isError |-> TRUE, nullish |-> FALSE, code |-> None,
     message |-> <<"The", "user", "cancelled", "the", "request">>],
    [isError |-> TRUE, nullish |-> FALSE, code |-> Some(CancelCode),
     message |-> <<"The", "user", "canceled", "the", "sign-in", "flow">>],
    [isError |-> FALSE, nullish |-> FALSE, code |-> Some(CancelCode), message |-> <<>>],
    [isError |-> TRUE, nullish |-> FALSE, code |-> None,
     message |-> <<"Network", "request", "failed">>],
    [isError |-> FALSE, nullish |-> FALSE, code |-> None, message |-> <<>>],
    [isError |-> FALSE, nullish |-> TRUE, code |-> None, message |-> <<>>] }

\* The messages of the errors the backend returns ({ error } of a resolved call).
BackendErrors == { <<"Invalid", "login", "credentials">>, <<"Network", "request", "failed">> }

(***************************************************************************)
(* Invocations of the functions of lib/auth.ts                             *)
(*                                                                         *)
(* flow.calls is the log of the external calls of the invocation, each     *)
(* with its arguments and its outcome.  The functions keep no state of     *)
(* their own between calls and meet only at the backend, so one invocation *)
(* is followed at a time.                                                  *)
(***************************************************************************)
Pending == [status |-> "pending", flag |-> FALSE, data |-> None, error |-> None,
            type |-> "", thrown |-> NoThrow]
Returned(flag, data, error, type) ==
    [status |-> "returned", flag |-> flag, data |-> data, error |-> error,
     type |-> type, thrown |-> NoThrow]
Threw(t) == [status |-> "threw", flag |-> FALSE, data |-> None, error |-> None,
             type |-> "", thrown |-> t]

Call(op, args) == [op |-> op, args |-> args, out |-> Pending]

NoFlow == [kind |-> "none", pc |-> "idle", calls |-> <<>>, result |-> None,
           rawNonce |-> None, hashedNonce |-> None]

LastOut == Last(flow.calls).out

\* No invocation is in progress.
Idle == flow.pc \in {"idle", "returned", "escaped"}

\* The function `kind` runs to its first await, the call of `op`.
Start(kind, op, args) ==
    flow' = [NoFlow EXCEPT !.kind = kind, !.pc = "await", !.calls = <<Call(op, args)>>]

\* The function `kind` is called and runs to its first await, the call of `op`.
Invoke(kind, op, args) ==
    /\ Idle
    /\ Start(kind, op, args)

\* The invocation of `kind` is suspended in the call of `op`, which has returned.
Resumes(kind, op) ==
    /\ flow.kind = kind
    /\ flow.pc = "await"
    /\ Last(flow.calls).op = op
    /\ LastOut.status = "returned"

\* The invocation continues to the await of the next call.
Await(f, op, args) == [f EXCEPT !.calls = Append(@, Call(op, args))]

\* The invocation returns res.
Return(res) == [flow EXCEPT !.pc = "returned", !.result = Some(res)]

\* The environment answers the pending call of `op`.
Answer(op, out) ==
    /\ flow.pc = "await"
    /\ Last(flow.calls).op = op
    /\ LastOut.status = "pending"
    /\ flow' = [flow EXCEPT !.calls[Len(flow.calls)].out = out]

flowOnly == <<snapshot, init, backend, history, ui, cli>>

\* Any awaited call can reject.
callThrows(t) ==
    /\ flow.pc = "await"
    /\ LastOut.status = "pending"
    /\ flow' = [flow EXCEPT !.calls[Len(flow.calls)].out = Threw(t)]
    /\ UNCHANGED flowOnly

(***************************************************************************)
(* Nonce helpers                                                           *)
(***************************************************************************)
NonceLength == 16

HexDigits == <<"0", "1", "2", "3", "4", "5", "6", "7", "8", "9", "a", "b", "c", "d", "e", "f">>

\* bytes.map((byte) => byte.toString(16).padStart(2, '0')).join('')
Hex(bytes) ==
    [k \in 1..(2 * Len(bytes)) |->
        IF k % 2 = 1 THEN HexDigits[(bytes[(k + 1) \div 2] \div 16) + 1]
                     ELSE HexDigits[(bytes[k \div 2] % 16) + 1]]

\* The byte strings Crypto.getRandomBytesAsync can return.
RandomBytes == { [k \in 1..NonceLength |-> 171],
                 [k \in 1..NonceLength |-> IF k = 1 THEN 0 ELSE 15 * k] }

\* Crypto.digestStringAsync(SHA256, str): a one-way image of str.
Digest(str) == <<"sha256">> \o str

(***************************************************************************)
(* signInWithApple                                                         *)
(***************************************************************************)
AppleIdentityTokens == { None, Some(<<>>), Some(<<"apple-identity-token">>) }

\* signInWithApple(), up to its first await: AppleAuthentication.isAvailableAsync()
signInWithAppleStart == Start("apple", "isAvailableAsync", <<>>)

signInWithAppleCall ==
    /\ Idle
    /\ signInWithAppleStart
    /\ UNCHANGED flowOnly

isAvailableAsyncReturns(b) ==
    /\ Answer("isAvailableAsync", Returned(b, None, None, ""))
    /\ UNCHANGED flowOnly

\* Mutant of appleAfterAvailable: the result of the availability check is ignored.
appleAfterAvailableUnchecked ==
    /\ Resumes("apple", "isAvailableAsync")
    /\ flow' = Await(flow, "getRandomBytesAsync", <<NonceLength>>)
    /\ UNCHANGED flowOnly

\* if (!isAvailable) return ...; generateNonce() up to its await
appleAfterAvailable ==
    /\ Resumes("apple", "isAvailableAsync")
    /\ flow' = IF ~LastOut.flag
               THEN Return(Failure(MsgAppleUnavailable))
               ELSE Await(flow, "getRandomBytesAsync", <<NonceLength>>)
    /\ UNCHANGED flowOnly

getRandomBytesAsyncReturns(bytes) ==
    /\ Answer("getRandomBytesAsync", Returned(FALSE, Some(bytes), None, ""))
    /\ UNCHANGED flowOnly

\* generateNonce() returns the hex string; hashNonce(rawNonce) up to its await
appleAfterRandomBytes ==
    /\ Resumes("apple", "getRandomBytesAsync")
    /\ LET rawNonce == Hex(LastOut.data[1])
       IN flow' = Await([flow EXCEPT !.rawNonce = Some(rawNonce)],
                        "digestStringAsync", <<<<"SHA256">>, rawNonce>>)
    /\ UNCHANGED flowOnly

digestStringAsyncReturns ==
    /\ Answer("digestStringAsync",
              Returned(FALSE, Some(Digest(Last(flow.calls).args[2])), None, ""))
    /\ UNCHANGED flowOnly

\* Mutant of appleAfterDigest: the credential request is given the raw nonce.
appleAfterDigestSendsRaw ==
    /\ Resumes("apple", "digestStringAsync")
    /\ LET hashedNonce == LastOut.data[1]
       IN flow' = Await([flow EXCEPT !.hashedNonce = Some(hashedNonce)],
                        "signInAsync", <<<<"FULL_NAME", "EMAIL">>, flow.rawNonce[1]>>)
    /\ UNCHANGED flowOnly

\* hashNonce() returns; AppleAuthentication.signInAsync({ requestedScopes, nonce })
appleAfterDigest ==
    /\ Resumes("apple", "digestStringAsync")
    /\ LET hashedNonce == LastOut.data[1]
       IN flow' = Await([flow EXCEPT !.hashedNonce = Some(hashedNonce)],
                        "signInAsync", <<<<"FULL_NAME", "EMAIL">>, hashedNonce>>)
    /\ UNCHANGED flowOnly

signInAsyncReturns(identityToken) ==
    /\ Answer("signInAsync", Returned(FALSE, identityToken, None, ""))
    /\ UNCHANGED flowOnly

\* Mutant of appleAfterCredential: only a null identity token is refused.
appleAfterCredentialNullOnly ==
    /\ Resumes("apple", "signInAsync")
    /\ flow' = IF LastOut.data = None
               THEN Return(Failure(MsgNoIdentityToken))
               ELSE Await(flow, "signInWithIdToken",
                          <<<<"apple">>, LastOut.data[1], flow.rawNonce[1]>>)
    /\ UNCHANGED flowOnly

\* if (!credential.identityToken) return ...; supabase.auth.signInWithIdToken(...)
appleAfterCredential ==
    /\ Resumes("apple", "signInAsync")
    /\ flow' = IF ~TruthyStr(LastOut.data)
               THEN Return(Failure(MsgNoIdentityToken))
               ELSE Await(flow, "signInWithIdToken",
                          <<<<"apple">>, LastOut.data[1], flow.rawNonce[1]>>)
    /\ UNCHANGED flowOnly

\* supabase.auth.signInWithIdToken resolves with an error and changes nothing.
signInWithIdTokenFails(msg) ==
    /\ Answer("signInWithIdToken", Returned(FALSE, None, Some(msg), ""))
    /\ UNCHANGED flowOnly

\* supabase.auth.signInWithIdToken resolves with a new session.
signInWithIdTokenSucceeds(s) ==
    /\ Answer("signInWithIdToken", Returned(FALSE, Some(<<s>>), None, ""))
    /\ Emit(s)
    /\ UNCHANGED <<snapshot, init, history, ui, cli>>

\* Mutant of appleAfterExchange: a rejected exchange is tried once more.
appleAfterExchangeRetries ==
    /\ Resumes("apple", "signInWithIdToken")
    /\ flow' = IF LastOut.error # None
               THEN IF Len(flow.calls) < 6
                    THEN Await(flow, "signInWithIdToken", Last(flow.calls).args)
                    ELSE Return(Failure(LastOut.error[1]))
               ELSE Return(Success)
    /\ UNCHANGED flowOnly

\* if (error) return { success: false, error: error.message }; return { success: true }
appleAfterExchange ==
    /\ Resumes("apple", "signInWithIdToken")
    /\ flow' = IF LastOut.error # None
               THEN Return(Failure(LastOut.error[1]))
               ELSE Return(Success)
    /\ UNCHANGED flowOnly

\* error instanceof Error ? error.message : 'Unknown error occurred'
ErrorMessage(t) == IF t.isError THEN t.message ELSE MsgUnknown

\* Mutant of appleCatch: the cancellation code is looked at on Error instances only.
appleCatchErrorsOnly ==
    /\ flow.kind = "apple"
    /\ flow.pc = "await"
    /\ LastOut.status = "threw"
    /\ LET t == LastOut.thrown
       IN flow' = IF t.isError /\ Includes(t.message, "cancelled")
                  THEN Return(Failure(MsgCancelled))
                  ELSE IF t.isError /\ t.code = Some(CancelCode)
                  THEN Return(Failure(MsgCancelled))
                  ELSE Return(Failure(ErrorMessage(t)))
    /\ UNCHANGED flowOnly

\* The catch block of signInWithApple.  Reading `code` of a thrown null or
\* undefined is a TypeError, which leaves the function.
appleCatch ==
    /\ flow.kind = "apple"
    /\ flow.pc = "await"
    /\ LastOut.status = "threw"
    /\ LET t == LastOut.thrown
       IN flow' = IF t.isError /\ Includes(t.message, "cancelled")
                  THEN Return(Failure(MsgCancelled))
                  ELSE IF t.nullish
                  THEN [flow EXCEPT !.pc = "escaped"]
                  ELSE IF t.code = Some(CancelCode)
                  THEN Return(Failure(MsgCancelled))
                  ELSE Return(Failure(ErrorMessage(t)))
    /\ UNCHANGED flowOnly

(***************************************************************************)
(* signInWithGoogleToken, signOut                                          *)
(***************************************************************************)
GoogleIdTokens == { <<"google-id-token">> }
GoogleAccessTokens == { None, Some(<<"google-access-token">>) }

signInWithGoogleTokenCall(idToken, accessToken) ==
    /\ Invoke("googleToken", "signInWithIdToken", <<<<"google">>, idToken, accessToken>>)
    /\ UNCHANGED flowOnly

googleTokenAfterExchange ==
    /\ Resumes("googleToken", "signInWithIdToken")
    /\ flow' = IF LastOut.error # None
               THEN Return(Failure(LastOut.error[1]))
               ELSE Return(Success)
    /\ UNCHANGED flowOnly

\* signOut(), up to its await: supabase.auth.signOut()
signOutStart == Start("signOut", "auth.signOut", <<>>)

signOutCall ==
    /\ Idle
    /\ signOutStart
    /\ UNCHANGED flowOnly

\* supabase.auth.signOut resolves with an error and changes nothing.
authSignOutFails(msg) ==
    /\ Answer("auth.signOut", Returned(FALSE, None, Some(msg), ""))
    /\ UNCHANGED flowOnly

\* supabase.auth.signOut resolves: the backend has no session any more.
authSignOutSucceeds ==
    /\ Answer("auth.signOut", Returned(FALSE, None, None, ""))
    /\ Emit(Null)
    /\ UNCHANGED <<snapshot, init, history, ui, cli>>

\* Mutant of signOutAfter: a successful sign-out clears the store itself.
signOutAfterClearsStore ==
    /\ Resumes("signOut", "auth.signOut")
    /\ flow' = IF LastOut.error # None
               THEN Return(Failure(LastOut.error[1]))
               ELSE Return(Success)
    /\ IF LastOut.error # None
       THEN UNCHANGED <<session, user, isAuthenticated>>
       ELSE SetAuth(Null)
    /\ UNCHANGED <<isLoading, init, backend, history, ui, cli>>

\* if (error) return { success: false, error: error.message }; return { success: true }
signOutAfter ==
    /\ Resumes("signOut", "auth.signOut")
    /\ flow' = IF LastOut.error # None
               THEN Return(Failure(LastOut.error[1]))
               ELSE Return(Success)
    /\ UNCHANGED flowOnly

(***************************************************************************)
(* signInWithGoogle                                                        *)
(***************************************************************************)
\* makeRedirectUri({ scheme: 'planor-template', path: 'auth/callback' })
getRedirectUri == <<"planor-template", "://", "auth/callback">>

\* The authorization URLs supabase.auth.signInWithOAuth can return in data.url.
OAuthUrls == { None, Some(<<>>), Some(<<"https://project.supabase.co/auth/v1/authorize">>) }

\* The index of the first token of str that is tok, 0 when there is none.
FirstIndex(str, tok) ==
    IF Includes(str, tok)
    THEN CHOOSE k \in DOMAIN str : str[k] = tok /\ \A j \in 1..(k - 1) : str[j] # tok
    ELSE 0

\* str.split(tok)[0]
BeforeFirst(str, tok) ==
    IF Includes(str, tok) THEN SubSeq(str, 1, FirstIndex(str, tok) - 1) ELSE str

\* What follows the first tok of str
AfterFirst(str, tok) == SubSeq(str, FirstIndex(str, tok) + 1, Len(str))

\* str.split(tok)[1]: undefined when str has no tok
SplitSecond(str, tok) ==
    IF Includes(str, tok) THEN Some(BeforeFirst(AfterFirst(str, tok), tok)) ELSE None

\* str.split('&')
RECURSIVE SplitAll(_, _)
SplitAll(str, tok) ==
    IF Includes(str, tok)
    THEN <<BeforeFirst(str, tok)>> \o SplitAll(AfterFirst(str, tok), tok)
    ELSE <<str>>

\* The decoding URLSearchParams applies to a name or value: '+' and %20 are spaces;
\* a malformed escape is kept.
FormDecode(str) == [k \in DOMAIN str |-> IF str[k] \in {"+", "%20"} THEN " " ELSE str[k]]

\* new URLSearchParams(query).get(name)
ParamsGet(query, name) ==
    LET pairs == SplitAll(query, "&")
        hits == { k \in DOMAIN pairs :
                    /\ pairs[k] # <<>>
                    /\ FormDecode(BeforeFirst(pairs[k], "=")) = <<name>> }
    IN IF hits = {} THEN None
       ELSE LET k == CHOOSE h \in hits : \A g \in hits : h <= g
            IN Some(IF Includes(pairs[k], "=")
                    THEN FormDecode(AfterFirst(pairs[k], "="))
                    ELSE <<>>)

\* The indexes at which 'error_description=' starts in url
ErrorDescriptionAt(url) ==
    { k \in 1..(Len(url) - 1) : url[k] = "error_description" /\ url[k + 1] = "=" }

\* url.includes('error_description=')
HasErrorDescription(url) == ErrorDescriptionAt(url) # {}

\* url.split('error_description=')[1]?.split('&')[0] || ''
RawErrorDescription(url) ==
    LET k == CHOOSE h \in ErrorDescriptionAt(url) : \A g \in ErrorDescriptionAt(url) : h <= g
        rest == SubSeq(url, k + 2, Len(url))
        piece == IF HasErrorDescription(rest)
                 THEN LET n == CHOOSE h \in ErrorDescriptionAt(rest) :
                                    \A g \in ErrorDescriptionAt(rest) : h <= g
                      IN SubSeq(rest, 1, n - 1)
                 ELSE rest
    IN BeforeFirst(piece, "&")

\* decodeURIComponent throws URIError for a malformed escape sequence.
Malformed(str) == Includes(str, "%")
URIError == [isError |-> TRUE, nullish |-> FALSE, code |-> None,
             message |-> <<"URI", "malformed">>]

\* decodeURIComponent(str) when it does not throw: '+' is kept
decodeURIComponent(str) == [k \in DOMAIN str |-> IF str[k] = "%20" THEN " " ELSE str[k]]

\* The callback URLs the browser session can end with.
CallbackUrls == {
    getRedirectUri \o <<"#", "access_token", "=", "A", "&", "refresh_token", "=", "B">>,
    getRedirectUri \o <<"#", "refresh_token", "=", "B", "&", "access_token", "=", "A",
                        "&", "error_description", "=", "ignored">>,
    getRedirectUri \o <<"#", "access_token", "=", "A">>,
    getRedirectUri \o <<"#", "access_token", "=", "&", "refresh_token", "=", "B">>,
    getRedirectUri \o <<"?", "error_description", "=", "access", "%20", "denied">>,
    getRedirectUri \o <<"#", "error_description", "=", "user", "+", "cancelled",
                        "&", "state", "=", "x">>,
    getRedirectUri \o <<"?", "error_description", "=", "&", "error", "=", "server_error">>,
    getRedirectUri \o <<"?", "error_description", "=", "%">>,
    getRedirectUri }

\* The results WebBrowser.openAuthSessionAsync can resolve with: { type, url? }
BrowserResults ==
    [type : {"success"}, url : {None} \cup {Some(u) : u \in CallbackUrls}]
    \cup [type : {"cancel", "dismiss", "locked"}, url : {None}]

\* signInWithGoogle(), up to its first await: supabase.auth.signInWithOAuth(...)
signInWithGoogleStart ==
    Start("google", "signInWithOAuth",
          <<<<"google">>, getRedirectUri, <<"skipBrowserRedirect">>>>)

signInWithGoogleCall ==
    /\ Idle
    /\ signInWithGoogleStart
    /\ UNCHANGED flowOnly

signInWithOAuthFails(msg) ==
    /\ Answer("signInWithOAuth", Returned(FALSE, None, Some(msg), ""))
    /\ UNCHANGED flowOnly

signInWithOAuthReturns(url) ==
    /\ Answer("signInWithOAuth", Returned(FALSE, url, None, ""))
    /\ UNCHANGED flowOnly

\* Mutant of googleAfterOAuth: an empty URL is opened in the browser.
googleAfterOAuthOpensEmpty ==
    /\ Resumes("google", "signInWithOAuth")
    /\ flow' = IF LastOut.error # None
               THEN Return(Failure(LastOut.error[1]))
               ELSE IF LastOut.data = None
               THEN Return(Failure(MsgNoOAuthUrl))
               ELSE Await(flow, "openAuthSessionAsync", <<LastOut.data[1], getRedirectUri>>)
    /\ UNCHANGED flowOnly

\* if (error) return ...; if (!data.url) return ...; WebBrowser.openAuthSessionAsync(...)
googleAfterOAuth ==
    /\ Resumes("google", "signInWithOAuth")
    /\ flow' = IF LastOut.error # None
               THEN Return(Failure(LastOut.error[1]))
               ELSE IF ~TruthyStr(LastOut.data)
               THEN Return(Failure(MsgNoOAuthUrl))
               ELSE Await(flow, "openAuthSessionAsync", <<LastOut.data[1], getRedirectUri>>)
    /\ UNCHANGED flowOnly

openAuthSessionAsyncReturns(r) ==
    /\ Answer("openAuthSessionAsync", Returned(FALSE, r.url, None, r.type))
    /\ UNCHANGED flowOnly

\* The tokens of the fragment of the callback URL, when both are there.
HashTokens(url) ==
    LET hashParams == SplitSecond(url, "#")
    IN IF ~TruthyStr(hashParams) THEN None
       ELSE LET accessToken == ParamsGet(hashParams[1], "access_token")
                refreshToken == ParamsGet(hashParams[1], "refresh_token")
            IN IF TruthyStr(accessToken) /\ TruthyStr(refreshToken)
               THEN Some(<<accessToken[1], refreshToken[1]>>)
               ELSE None

\* What signInWithGoogle returns for a callback URL that installs no session.
NoSessionResult(url) ==
    IF ~HasErrorDescription(url) THEN Failure(MsgNoTokens)
    ELSE IF Malformed(RawErrorDescription(url)) THEN Failure(ErrorMessage(URIError))
    ELSE IF decodeURIComponent(RawErrorDescription(url)) # <<>>
    THEN Failure(decodeURIComponent(RawErrorDescription(url)))
    ELSE Failure(MsgNoTokens)

\* Mutant of googleAfterBrowser: a dismissed browser session is a generic failure.
googleAfterBrowserCancelOnly ==
    /\ Resumes("google", "openAuthSessionAsync")
    /\ flow' = IF LastOut.type = "success" /\ TruthyStr(LastOut.data)
               THEN IF HashTokens(LastOut.data[1]) # None
                    THEN Await(flow, "auth.setSession", HashTokens(LastOut.data[1])[1])
                    ELSE Return(NoSessionResult(LastOut.data[1]))
               ELSE IF LastOut.type = "cancel"
               THEN Return(Failure(MsgCancelled))
               ELSE Return(Failure(MsgAuthFailed))
    /\ UNCHANGED flowOnly

\* Mutant of googleAfterBrowser: the two tokens are handed over in the other order.
googleAfterBrowserSwapped ==
    /\ Resumes("google", "openAuthSessionAsync")
    /\ flow' = IF LastOut.type = "success" /\ TruthyStr(LastOut.data)
               THEN IF HashTokens(LastOut.data[1]) # None
                    THEN Await(flow, "auth.setSession",
                               <<HashTokens(LastOut.data[1])[1][2],
                                 HashTokens(LastOut.data[1])[1][1]>>)
                    ELSE Return(NoSessionResult(LastOut.data[1]))
               ELSE IF LastOut.type \in {"cancel", "dismiss"}
               THEN Return(Failure(MsgCancelled))
               ELSE Return(Failure(MsgAuthFailed))
    /\ UNCHANGED flowOnly

\* The code after the browser session: the callback URL is parsed.
googleAfterBrowser ==
    /\ Resumes("google", "openAuthSessionAsync")
    /\ flow' = IF LastOut.type = "success" /\ TruthyStr(LastOut.data)
               THEN IF HashTokens(LastOut.data[1]) # None
                    THEN Await(flow, "auth.setSession", HashTokens(LastOut.data[1])[1])
                    ELSE Return(NoSessionResult(LastOut.data[1]))
               ELSE IF LastOut.type \in {"cancel", "dismiss"}
               THEN Return(Failure(MsgCancelled))
               ELSE Return(Failure(MsgAuthFailed))
    /\ UNCHANGED flowOnly

\* supabase.auth.setSession resolves with an error and changes nothing.
authSetSessionFails(msg) ==
    /\ Answer("auth.setSession", Returned(FALSE, None, Some(msg), ""))
    /\ UNCHANGED flowOnly

\* supabase.auth.setSession resolves: the tokens' session is the backend's session.
authSetSessionSucceeds(s) ==
    /\ Answer("auth.setSession", Returned(FALSE, Some(<<s>>), None, ""))
    /\ Emit(s)
    /\ UNCHANGED <<snapshot, init, history, ui, cli>>

\* Mutant of googleAfterInstall: a failed install is reported with a fixed message.
googleAfterInstallGeneric ==
    /\ Resumes("google", "auth.setSession")
    /\ flow' = IF LastOut.error # None
               THEN Return(Failure(MsgAuthFailed))
               ELSE Return(Success)
    /\ UNCHANGED flowOnly

\* if (sessionError) return { success: false, error: sessionError.message }; return { success: true }
googleAfterInstall ==
    /\ Resumes("google", "auth.setSession")
    /\ flow' = IF LastOut.error # None
               THEN Return(Failure(LastOut.error[1]))
               ELSE Return(Success)
    /\ UNCHANGED flowOnly

\* The catch block of signInWithGoogle, signInWithGoogleToken and signOut.
plainCatch(kind) ==
    /\ flow.kind = kind
    /\ flow.pc = "await"
    /\ LastOut.status = "threw"
    /\ flow' = Return(Failure(ErrorMessage(LastOut.thrown)))
    /\ UNCHANGED flowOnly

(***************************************************************************)
(* Specification                                                           *)
(***************************************************************************)
(***************************************************************************)
(* Routing, the login screen and the Google sign-in button                 *)
(***************************************************************************)
\* The screens of the root Stack, as useSegments()[0] names them.
Areas == {"index", "(auth)", "(protected)", "+not-found"}

LoginHref == "/(auth)/login"
ProtectedHref == "/(protected)"

\* The route group a href leads to.
GroupOf(href) == IF href = LoginHref THEN "(auth)" ELSE "(protected)"

\* The component `by` calls router.replace for each of hrefs, in order.
Replace(by, hrefs) ==
    /\ router' = [by |-> by, issued |-> hrefs]
    /\ segments' = IF hrefs = <<>> THEN segments ELSE GroupOf(Last(hrefs))

\* The dependencies of the effect of useProtectedRoute.
GateDeps == <<isAuthenticated, isLoading, segments>>

\* Mutant of GateNavigations: a user with a session is sent to the login screen
\* from the protected area.
GateNavigationsBounces(loading, authed, area) ==
    IF loading THEN <<>>
    ELSE IF ~authed /\ ~(area = "(auth)") THEN <<LoginHref>>
    ELSE IF authed /\ area = "(auth)" THEN <<ProtectedHref>>
    ELSE IF authed /\ area = "(protected)" THEN <<LoginHref>>
    ELSE <<>>

\* Mutant of GateNavigations: the three conditions are separate if statements.
GateNavigationsNoElse(loading, authed, area) ==
    IF loading THEN <<>>
    ELSE (IF ~authed /\ ~(area = "(auth)") THEN <<LoginHref>> ELSE <<>>)
         \o (IF authed /\ area = "(auth)" THEN <<ProtectedHref>> ELSE <<>>)
         \o (IF ~authed /\ area = "(protected)" THEN <<LoginHref>> ELSE <<>>)

\* The effect has run for the dependencies of the last render.  React runs the
\* effects of a render before it handles the next event or renders the next
\* navigation, so a press, a link and a callback that navigates find them run.
EffectsFlushed == gateSeen = GateDeps

\* The body of the effect of useProtectedRoute: the router.replace calls it makes.
GateNavigations(loading, authed, area) ==
    IF loading THEN <<>>
    ELSE IF ~authed /\ ~(area = "(auth)") THEN <<LoginHref>>
    ELSE IF authed /\ area = "(auth)" THEN <<ProtectedHref>>
    ELSE IF ~authed /\ area = "(protected)" THEN <<LoginHref>>
    ELSE <<>>

\* Mutant of useProtectedRoute: the effect does not depend on isAuthenticated, so
\* a change of it alone does not run the effect again.
useProtectedRouteStale ==
    /\ IF gateSeen = <<>> THEN TRUE
       ELSE gateSeen[2] # isLoading \/ gateSeen[3] # segments
    /\ gateSeen' = GateDeps
    /\ Replace("useProtectedRoute", GateNavigations(isLoading, isAuthenticated, segments))
    /\ UNCHANGED <<snapshot, init, backend, history, cli, flow, buttons>>

\* The effect of useProtectedRoute runs: on mount and after a render in which one
\* of its dependencies has changed.
useProtectedRoute ==
    /\ gateSeen # GateDeps
    /\ gateSeen' = GateDeps
    /\ Replace("useProtectedRoute", GateNavigations(isLoading, isAuthenticated, segments))
    /\ UNCHANGED <<snapshot, init, backend, history, cli, flow, buttons>>

\* IndexScreen renders past its loading branch: a <Redirect>.
IndexScreen ==
    /\ segments = "index"
    /\ ~isLoading
    /\ Replace("IndexScreen", <<IF isAuthenticated THEN ProtectedHref ELSE LoginHref>>)
    /\ UNCHANGED <<snapshot, init, backend, history, cli, flow, gateSeen, buttons>>

\* The app is opened at a screen of the Stack by a link.
openLink(area) ==
    /\ EffectsFlushed
    /\ segments # area
    /\ segments' = area
    /\ UNCHANGED <<snapshot, init, backend, history, cli, flow, router, gateSeen, buttons>>

\* t('auth.google_error')
MsgGoogleError == <<"auth.google_error">>

NoReport == [onSuccess |-> FALSE, onError |-> None]

\* LoginScreen is on screen: RootNavigator renders the Stack and the Stack shows (auth).
LoginScreen == segments = "(auth)" /\ ~isLoading

\* Mutant of googleHandlePress: a press is not ignored while isLoading is true.
googleHandlePressUnguarded ==
    /\ LoginScreen
    /\ EffectsFlushed
    /\ appleButton.inFlight = 0
    /\ googleButton.inFlight < 2
    /\ googleButton' = [isLoading |-> TRUE, pc |-> "await",
                        inFlight |-> googleButton.inFlight + 1]
    /\ signInWithGoogleStart
    /\ reported' = NoReport
    /\ UNCHANGED <<snapshot, init, backend, history, cli, segments, router, gateSeen, appleButton>>

\* GoogleSignInButton.handlePress, up to its await: signInWithGoogle() is called.
googleHandlePress ==
    /\ LoginScreen
    /\ EffectsFlushed
    /\ ~googleButton.isLoading
    /\ appleButton.inFlight = 0
    /\ googleButton' = [isLoading |-> TRUE, pc |-> "await",
                        inFlight |-> googleButton.inFlight + 1]
    /\ signInWithGoogleStart
    /\ reported' = NoReport
    /\ UNCHANGED <<snapshot, init, backend, history, cli, segments, router, gateSeen, appleButton>>

\* LoginScreen.handleSuccess
handleSuccess == Replace("handleSuccess", <<ProtectedHref>>)

\* The callbacks handlePress makes for the result of signInWithGoogle().
GoogleReport(result) ==
    IF result.success THEN [onSuccess |-> TRUE, onError |-> None]
    ELSE IF TruthyStr(result.error) /\ ~Includes(result.error[1], "cancelled")
    THEN [onSuccess |-> FALSE, onError |-> result.error]
    ELSE NoReport

\* GoogleSignInButton.handlePress, after its await; the catch block takes what
\* signInWithGoogle() throws.  The invocation is over once its result is taken.
googleHandlePressResume ==
    /\ googleButton.pc = "await"
    /\ EffectsFlushed
    /\ flow.kind = "google"
    /\ flow.pc \in {"returned", "escaped"}
    /\ reported' = IF flow.pc = "escaped"
                   THEN [onSuccess |-> FALSE, onError |-> Some(MsgGoogleError)]
                   ELSE GoogleReport(flow.result[1])
    /\ IF reported'.onSuccess THEN handleSuccess ELSE UNCHANGED <<segments, router>>
    /\ googleButton' = [isLoading |-> FALSE, pc |-> "idle",
                        inFlight |-> googleButton.inFlight - 1]
    /\ flow' = NoFlow
    /\ UNCHANGED <<snapshot, init, backend, history, cli, gateSeen, appleButton>>

\* AppleSignInButton: the effect that runs on mount has set isAvailable
\* (false on a platform other than iOS).
appleCheckAvailability(available) ==
    /\ LoginScreen
    /\ appleButton.isAvailable = Null
    /\ appleButton' = [appleButton EXCEPT !.isAvailable = IF available THEN "true" ELSE "false"]
    /\ UNCHANGED <<snapshot, init, backend, history, cli, flow, segments, router, gateSeen,
                   googleButton, reported>>

\* AppleSignInButton.handlePress, up to its await: signInWithApple() is called.
\* The button is rendered once isAvailable is true.
appleHandlePress ==
    /\ LoginScreen
    /\ EffectsFlushed
    /\ appleButton.isAvailable = "true"
    /\ ~appleButton.isLoading
    /\ googleButton.inFlight = 0
    /\ appleButton' = [appleButton EXCEPT !.isLoading = TRUE, !.pc = "await",
                                          !.inFlight = @ + 1]
    /\ signInWithAppleStart
    /\ reported' = NoReport
    /\ UNCHANGED <<snapshot, init, backend, history, cli, segments, router, gateSeen, googleButton>>

\* The callbacks handlePress makes for the result of signInWithApple().
AppleReport(result) ==
    IF result.success THEN [onSuccess |-> TRUE, onError |-> None]
    ELSE IF TruthyStr(result.error)
    THEN [onSuccess |-> FALSE, onError |-> result.error]
    ELSE NoReport

\* AppleSignInButton.handlePress, after its await: try / finally without a catch,
\* so what signInWithApple() throws leaves handlePress after the finally block.
appleHandlePressResume ==
    /\ appleButton.pc = "await"
    /\ EffectsFlushed
    /\ flow.kind = "apple"
    /\ flow.pc \in {"returned", "escaped"}
    /\ reported' = IF flow.pc = "escaped" THEN NoReport ELSE AppleReport(flow.result[1])
    /\ IF reported'.onSuccess THEN handleSuccess ELSE UNCHANGED <<segments, router>>
    /\ appleButton' = [appleButton EXCEPT !.isLoading = FALSE, !.pc = "idle",
                                          !.inFlight = @ - 1]
    /\ flow' = NoFlow
    /\ UNCHANGED <<snapshot, init, backend, history, cli, gateSeen, googleButton>>

\* ProtectedHomeScreen.handleSignOut, up to its await: signOut() is called.  One
\* invocation of a lib/auth.ts function is followed at a time.
handleSignOut ==
    /\ segments = "(protected)"
    /\ ~isLoading
    /\ EffectsFlushed
    /\ flow.pc = "idle"
    /\ signOutStart
    /\ UNCHANGED <<snapshot, init, backend, history, ui, cli>>

\* ProtectedHomeScreen.handleSignOut, after its await: an alert for a failure,
\* no write to the store and no navigation.
handleSignOutResume ==
    /\ flow.kind = "signOut"
    /\ flow.pc = "returned"
    /\ flow' = NoFlow
    /\ UNCHANGED <<snapshot, init, backend, history, ui, cli>>

(***************************************************************************)
(* create-planor-app (cli)                                                 *)
(*                                                                         *)
(* A path is the sequence of its segments under the working directory; the *)
(* file system is the set of the directories that exist.                   *)
(***************************************************************************)
MaxRuns == 2  \* runs of the CLI

\* process.cwd()
Cwd == << <<"cwd">> >>

\* What the user can give as the project name: nothing (no argument, a cancelled
\* prompt), the empty string, the current directory, two names.
NameInputs == { None, Some(<<>>), Some(<<".">>), Some(<<"my-planor-app">>), Some(<<"shop">>) }

\* path.resolve(process.cwd(), name)
Resolve(name) == IF name = <<".">> THEN Cwd ELSE Append(Cwd, name)

\* path.join(targetDir, 'cli')
CliDir(targetDir) == Append(targetDir, <<"cli">>)

NoRun == [pc |-> "idle", runs |-> 0, name |-> None, steps |-> <<>>, failed |-> "none",
          templateCli |-> FALSE, code |-> Null, fs |-> {Cwd}]

\* process.exit(code), or the end of the action.
Exit(c, code) == [c EXCEPT !.pc = "exited", !.code = code]

\* The action once the name is known: the two checks, then emitter.clone(targetDir)
\* is called.
AfterName(c, name) ==
    IF ~TruthyStr(name) THEN Exit([c EXCEPT !.name = name], 1)
    ELSE IF Resolve(name[1]) \in c.fs THEN Exit([c EXCEPT !.name = name], 1)
    ELSE [c EXCEPT !.name = name, !.pc = "clone"]

\* The CLI is started: the action runs up to its first await, the prompt when no
\* name was given and the download otherwise.
cliAction(projectName) ==
    /\ cli.pc \in {"idle", "exited"}
    /\ cli.runs < MaxRuns
    /\ LET c == [NoRun EXCEPT !.runs = cli.runs + 1, !.fs = cli.fs]
       IN cli' = IF ~TruthyStr(projectName) THEN [c EXCEPT !.pc = "prompt"]
                 ELSE AfterName(c, projectName)
    /\ UNCHANGED app

\* prompts() resolves: response.projectName is the name.
promptsReturns(answer) ==
    /\ cli.pc = "prompt"
    /\ cli' = AfterName(cli, answer)
    /\ UNCHANGED app

\* Mutant of cloneResolves: the cli folder is left in the project.
cloneResolvesKeepsCli(templateCli, rmThrows) ==
    /\ cli.pc = "clone"
    /\ LET targetDir == Resolve(cli.name[1])
           cloned == cli.fs \cup {targetDir}
                            \cup (IF templateCli THEN {CliDir(targetDir)} ELSE {})
       IN cli' = [cli EXCEPT !.fs = cloned, !.templateCli = templateCli,
                             !.steps = <<"clone">>, !.pc = "install"]
    /\ UNCHANGED app

\* emitter.clone(targetDir) resolves: the template is in targetDir, with its cli
\* folder when it has one; the folder is removed and npm install is called.  What
\* fs.rmSync throws is taken by the catch block.
cloneResolves(templateCli, rmThrows) ==
    /\ cli.pc = "clone"
    /\ LET targetDir == Resolve(cli.name[1])
           cliDir == CliDir(targetDir)
           cloned == cli.fs \cup {targetDir} \cup (IF templateCli THEN {cliDir} ELSE {})
           c == [cli EXCEPT !.fs = cloned, !.templateCli = templateCli,
                            !.steps = <<"clone">>]
       IN cli' = IF cliDir \notin cloned THEN [c EXCEPT !.pc = "install"]
                 ELSE IF rmThrows THEN Exit([c EXCEPT !.failed = "removeCli"], 1)
                 ELSE [c EXCEPT !.fs = cloned \ {cliDir},
                                !.steps = <<"clone", "removeCli">>, !.pc = "install"]
    /\ UNCHANGED app

\* emitter.clone(targetDir) rejects, with or without a part of the download left
\* behind: the catch block.
cloneRejects(partial) ==
    /\ cli.pc = "clone"
    /\ cli' = Exit([cli EXCEPT !.failed = "clone",
                               !.fs = IF partial THEN @ \cup {Resolve(cli.name[1])} ELSE @], 1)
    /\ UNCHANGED app

\* npm install resolves: success is reported and the action ends.
installResolves ==
    /\ cli.pc = "install"
    /\ cli' = Exit([cli EXCEPT !.steps = Append(@, "install"),
                               !.fs = @ \cup {Append(Resolve(cli.name[1]), <<"node_modules">>)}], 0)
    /\ UNCHANGED app

\* npm install rejects: the catch block.
installRejects ==
    /\ cli.pc = "install"
    /\ cli' = Exit([cli EXCEPT !.failed = "install"], 1)
    /\ UNCHANGED app

\* Between two runs the user makes or removes a directory in the working directory.
makeDirectory(name) ==
    /\ cli.pc \in {"idle", "exited"}
    /\ Resolve(name) \notin cli.fs
    /\ cli' = [cli EXCEPT !.fs = @ \cup {Resolve(name)}]
    /\ UNCHANGED app

removeDirectory(name) ==
    /\ cli.pc \in {"idle", "exited"}
    /\ Resolve(name) # Cwd
    /\ Resolve(name) \in cli.fs
    /\ cli' = [cli EXCEPT !.fs = {d \in @ : IF Len(d) < 2 THEN TRUE
                                             ELSE SubSeq(d, 1, 2) # Resolve(name)}]
    /\ UNCHANGED app

Init ==
    /\ session = Null
    /\ user = Null
    /\ isLoading = TRUE
    /\ isAuthenticated = FALSE
    /\ init = [i \in InitCalls |-> [pc |-> "idle", fetched |-> Null, raced |-> FALSE]]
    /\ backendSession \in SessionOrNull
    /\ listeners = 0
    /\ queue = <<>>
    /\ lastOp = "none"
    /\ lastArg = Null
    /\ flow = NoFlow
    /\ segments = "index"
    /\ router = [by |-> "none", issued |-> <<>>]
    /\ gateSeen = <<>>
    /\ googleButton = [isLoading |-> FALSE, pc |-> "idle", inFlight |-> 0]
    /\ appleButton = [isAvailable |-> Null, isLoading |-> FALSE, pc |-> "idle", inFlight |-> 0]
    /\ reported = NoReport
    /\ cli = NoRun

Next ==
    \/ \E i \in InitCalls : initializeCall(i)
    \/ \E i \in InitCalls : getSessionResolves(i)
    \/ \E i \in InitCalls : getSessionRejects(i)
    \/ \E i \in InitCalls : initializeResume(i)
    \/ \E i \in InitCalls : initializeCatch(i)
    \/ onAuthStateChange
    \/ \E s \in SessionOrNull : setSession(s)
    \/ clearAuth
    \/ \E s \in SessionOrNull : backendSessionChange(s)

Spec == Init /\ [][Next]_vars

\* The store and the functions of lib/auth.ts; initialize() is called once, as
\* RootLayout does on mount.
NextFlows ==
    \/ initializeCall(1)
    \/ getSessionResolves(1)
    \/ getSessionRejects(1)
    \/ initializeResume(1)
    \/ initializeCatch(1)
    \/ onAuthStateChange
    \/ \E s \in SessionOrNull : setSession(s)
    \/ clearAuth
    \/ \E s \in SessionOrNull : backendSessionChange(s)
    \/ \E t \in Thrown : callThrows(t)
    \/ signInWithAppleCall
    \/ \E b \in BOOLEAN : isAvailableAsyncReturns(b)
    \/ appleAfterAvailable
    \/ \E bytes \in RandomBytes : getRandomBytesAsyncReturns(bytes)
    \/ appleAfterRandomBytes
    \/ digestStringAsyncReturns
    \/ appleAfterDigest
    \/ \E tok \in AppleIdentityTokens : signInAsyncReturns(tok)
    \/ appleAfterCredential
    \/ \E msg \in BackendErrors : signInWithIdTokenFails(msg)
    \/ \E s \in Sessions : signInWithIdTokenSucceeds(s)
    \/ appleAfterExchange
    \/ appleCatch
    \/ \E i \in GoogleIdTokens, a \in GoogleAccessTokens : signInWithGoogleTokenCall(i, a)
    \/ googleTokenAfterExchange
    \/ signOutCall
    \/ \E msg \in BackendErrors : authSignOutFails(msg)
    \/ authSignOutSucceeds
    \/ signOutAfter
    \/ signInWithGoogleCall
    \/ \E msg \in BackendErrors : signInWithOAuthFails(msg)
    \/ \E url \in OAuthUrls : signInWithOAuthReturns(url)
    \/ googleAfterOAuth
    \/ \E r \in BrowserResults : openAuthSessionAsyncReturns(r)
    \/ googleAfterBrowser
    \/ \E msg \in BackendErrors : authSetSessionFails(msg)
    \/ \E s \in Sessions : authSetSessionSucceeds(s)
    \/ googleAfterInstall
    \/ \E k \in {"google", "googleToken", "signOut"} : plainCatch(k)

SpecFlows == Init /\ [][NextFlows]_vars

\* The messages of the backend's errors on the login screen: a request the server
\* cancelled is one of them.
ButtonBackendErrors == BackendErrors \cup { <<"Request", "cancelled", "by", "the", "server">> }

\* The login screen: RootLayout calls initialize() once, the app starts at the
\* index route, and the Google button is the only caller of signInWithGoogle().
NextButton ==
    \/ initializeCall(1)
    \/ getSessionResolves(1)
    \/ getSessionRejects(1)
    \/ initializeResume(1)
    \/ initializeCatch(1)
    \/ onAuthStateChange
    \/ \E s \in SessionOrNull : backendSessionChange(s)
    \/ useProtectedRoute
    \/ IndexScreen
    \/ googleHandlePress
    \/ \E t \in Thrown : callThrows(t)
    \/ \E msg \in ButtonBackendErrors : signInWithOAuthFails(msg)
    \/ \E url \in OAuthUrls : signInWithOAuthReturns(url)
    \/ googleAfterOAuth
    \/ \E r \in BrowserResults : openAuthSessionAsyncReturns(r)
    \/ googleAfterBrowser
    \/ \E msg \in ButtonBackendErrors : authSetSessionFails(msg)
    \/ \E s \in Sessions : authSetSessionSucceeds(s)
    \/ googleAfterInstall
    \/ plainCatch("google")
    \/ googleHandlePressResume

SpecButton == Init /\ [][NextButton]_vars

\* The outcomes of the calls of signInWithGoogle() that the routing can tell apart:
\* a rejected call, a backend error, a browser session that ends with both tokens,
\* with no parameter at all, or cancelled.
RoutingThrown == { t \in Thrown : t.isError /\ t.message = <<"Network", "request", "failed">> }
RoutingBackendErrors == { <<"Invalid", "login", "credentials">> }
RoutingOAuthUrls == { u \in OAuthUrls : TruthyStr(u) }
RoutingBrowserResults ==
    { r \in BrowserResults :
        \/ r.type = "cancel"
        \/ /\ r.type = "success"
           /\ r.url # None
           /\ Len(r.url[1]) \in {Len(getRedirectUri), Len(getRedirectUri) + 8} }

\* The login screen on iOS, with both buttons: the Apple button is the only caller
\* of signInWithApple().
NextLogin ==
    \/ initializeCall(1)
    \/ getSessionResolves(1)
    \/ getSessionRejects(1)
    \/ initializeResume(1)
    \/ initializeCatch(1)
    \/ onAuthStateChange
    \/ \E s \in SessionOrNull : backendSessionChange(s)
    \/ useProtectedRoute
    \/ IndexScreen
    \/ \E t \in Thrown : callThrows(t)
    \/ googleHandlePress
    \/ \E msg \in BackendErrors : signInWithOAuthFails(msg)
    \/ \E url \in OAuthUrls : signInWithOAuthReturns(url)
    \/ googleAfterOAuth
    \/ \E r \in RoutingBrowserResults : openAuthSessionAsyncReturns(r)
    \/ googleAfterBrowser
    \/ \E msg \in BackendErrors : authSetSessionFails(msg)
    \/ \E s \in Sessions : authSetSessionSucceeds(s)
    \/ googleAfterInstall
    \/ plainCatch("google")
    \/ googleHandlePressResume
    \/ \E b \in BOOLEAN : appleCheckAvailability(b)
    \/ appleHandlePress
    \/ \E b \in BOOLEAN : isAvailableAsyncReturns(b)
    \/ appleAfterAvailable
    \/ \E bytes \in RandomBytes : getRandomBytesAsyncReturns(bytes)
    \/ appleAfterRandomBytes
    \/ digestStringAsyncReturns
    \/ appleAfterDigest
    \/ \E tok \in AppleIdentityTokens : signInAsyncReturns(tok)
    \/ appleAfterCredential
    \/ \E msg \in BackendErrors : signInWithIdTokenFails(msg)
    \/ \E s \in Sessions : signInWithIdTokenSucceeds(s)
    \/ appleAfterExchange
    \/ appleCatch
    \/ appleHandlePressResume

SpecLogin == Init /\ [][NextLogin]_vars

\* A session's life in the app: start-up, sign-in with the Google button, sign-out
\* on the protected home screen, and session changes of the backend's own.
NextSession ==
    \/ initializeCall(1)
    \/ getSessionResolves(1)
    \/ getSessionRejects(1)
    \/ initializeResume(1)
    \/ initializeCatch(1)
    \/ onAuthStateChange
    \/ \E s \in SessionOrNull : backendSessionChange(s)
    \/ useProtectedRoute
    \/ IndexScreen
    \/ googleHandlePress
    \/ \E t \in RoutingThrown : callThrows(t)
    \/ \E msg \in RoutingBackendErrors : signInWithOAuthFails(msg)
    \/ \E url \in RoutingOAuthUrls : signInWithOAuthReturns(url)
    \/ googleAfterOAuth
    \/ \E r \in RoutingBrowserResults : openAuthSessionAsyncReturns(r)
    \/ googleAfterBrowser
    \/ \E msg \in RoutingBackendErrors : authSetSessionFails(msg)
    \/ \E s \in Sessions : authSetSessionSucceeds(s)
    \/ googleAfterInstall
    \/ plainCatch("google")
    \/ googleHandlePressResume
    \/ handleSignOut
    \/ \E msg \in RoutingBackendErrors : authSignOutFails(msg)
    \/ authSignOutSucceeds
    \/ signOutAfter
    \/ plainCatch("signOut")
    \/ handleSignOutResume

\* React runs an effect after every render that changed its dependencies, and
\* expo-router performs a rendered <Redirect>: neither is postponed for ever.
SpecSession ==
    /\ Init
    /\ [][NextSession]_vars
    /\ WF_vars(useProtectedRoute)
    /\ WF_vars(IndexScreen)

\* The app: the store, the navigator with links into any of its screens, and the
\* login screen with its Google button.
NextApp ==
    \/ initializeCall(1)
    \/ getSessionResolves(1)
    \/ getSessionRejects(1)
    \/ initializeResume(1)
    \/ initializeCatch(1)
    \/ onAuthStateChange
    \/ \E s \in SessionOrNull : backendSessionChange(s)
    \/ useProtectedRoute
    \/ IndexScreen
    \/ \E area \in Areas : openLink(area)
    \/ googleHandlePress
    \/ \E t \in RoutingThrown : callThrows(t)
    \/ \E msg \in RoutingBackendErrors : signInWithOAuthFails(msg)
    \/ \E url \in RoutingOAuthUrls : signInWithOAuthReturns(url)
    \/ googleAfterOAuth
    \/ \E r \in RoutingBrowserResults : openAuthSessionAsyncReturns(r)
    \/ googleAfterBrowser
    \/ \E msg \in RoutingBackendErrors : authSetSessionFails(msg)
    \/ \E s \in Sessions : authSetSessionSucceeds(s)
    \/ googleAfterInstall
    \/ plainCatch("google")
    \/ googleHandlePressResume

SpecApp == Init /\ [][NextApp]_vars

\* The routing system on its own: start-up, session changes of the backend, and
\* links that put any screen in front of the gate.
NextRouting ==
    \/ initializeCall(1)
    \/ getSessionResolves(1)
    \/ getSessionRejects(1)
    \/ initializeResume(1)
    \/ initializeCatch(1)
    \/ onAuthStateChange
    \/ \E s \in SessionOrNull : backendSessionChange(s)
    \/ useProtectedRoute
    \/ IndexScreen
    \/ \E area \in Areas : openLink(area)

SpecRouting ==
    /\ Init
    /\ [][NextRouting]_vars
    /\ WF_vars(useProtectedRoute)
    /\ WF_vars(IndexScreen)

\* Runs of create-planor-app in a working directory.
NextCli ==
    \/ \E projectName \in NameInputs : cliAction(projectName)
    \/ \E answer \in NameInputs : promptsReturns(answer)
    \/ \E templateCli \in BOOLEAN, rmThrows \in BOOLEAN : cloneResolves(templateCli, rmThrows)
    \/ \E partial \in BOOLEAN : cloneRejects(partial)
    \/ installResolves
    \/ installRejects
    \/ \E name \in {<<"my-planor-app">>, <<"shop">>} : makeDirectory(name)
    \/ \E name \in {<<"my-planor-app">>, <<"shop">>} : removeDirectory(name)

SpecCli == Init /\ [][NextCli]_vars


(***************************************************************************)
(* Properties of the auth store (specification Spec)                       *)
(***************************************************************************)
\* The user of a session, null for no session (written out, independently of the store).
OwnerOrNull(s) == IF s = Null THEN Null ELSE IF s = "s1" THEN "alice" ELSE "bob"

\* C1: in every reachable state of the store, isAuthenticated is true exactly when
\* session is non-null, and user is the owner of session, null when session is null.
C1_SnapshotConsistent ==
    /\ isAuthenticated = (session # Null)
    /\ user = OwnerOrNull(session)

\* A session delivered by a notification is in the store, after an initialize() that
\* raced with a direct write.
C1_Witness ==
    /\ lastOp = "notification"
    /\ session # Null
    /\ isAuthenticated
    /\ user = OwnerOrNull(session)
    /\ \E i \in InitCalls : init[i].pc = "done" /\ init[i].raced

\* C2: the step in which initialize() resumes after a successful fetch and resolves
\* leaves isLoading false, session the fetched session and isAuthenticated equal to
\* whether the fetched session is non-null, whatever setSession() or clearAuth()
\* wrote while the fetch was pending.
C2_InitializeSetsFetched ==
    [][\A i \in InitCalls :
          (init[i].pc = "resolved" /\ init'[i].pc = "done")
          => /\ isLoading' = FALSE
             /\ session' = init[i].fetched
             /\ user' = OwnerOrNull(init[i].fetched)
             /\ isAuthenticated' = (init[i].fetched # Null)]_vars

\* initialize() has resolved with the fetched session in the store, and setSession()
\* or clearAuth() had run while its fetch was pending.
C2_Witness ==
    /\ lastOp = "initialize"
    /\ ~isLoading
    /\ \E i \in InitCalls :
          /\ init[i].pc = "done"
          /\ init[i].raced
          /\ lastArg = init[i].fetched
          /\ session = init[i].fetched
          /\ \A j \in InitCalls \ {i} : init[j].pc = "idle"

\* C3: the step in which initialize() handles a failed fetch and resolves sets
\* isLoading to false and leaves session, user and isAuthenticated as they were:
\* the unauthenticated default when no operation wrote them before.
C3_FailedFetchKeepsSession ==
    [][\A i \in InitCalls :
          (init[i].pc = "rejected" /\ init'[i].pc = "done")
          => /\ isLoading' = FALSE
             /\ session' = session
             /\ user' = user
             /\ isAuthenticated' = isAuthenticated
             /\ lastOp = "none" => (session' = Null /\ user' = Null /\ ~isAuthenticated')]_vars

\* initialize() has resolved after a failed fetch and the session that setSession()
\* wrote meanwhile is still in the store.
C3_Witness ==
    /\ lastOp = "initializeFailed"
    /\ ~isLoading
    /\ session # Null
    /\ isAuthenticated
    /\ \E i \in InitCalls : init[i].pc = "done" /\ init[i].raced

\* C4: after clearAuth(), from any prior state, session is null, user is null and
\* isAuthenticated is false.
C4_ClearAuthResets ==
    lastOp = "clearAuth" => (session = Null /\ user = Null /\ isAuthenticated = FALSE)

\* clearAuth() has run on an authenticated snapshot.
C4_Witness ==
    /\ lastOp = "clearAuth"
    /\ lastArg # Null
    /\ session = Null
    /\ ~isLoading

\* C5: notifications leave the queue one at a time, oldest first, and the step that
\* takes one out writes its session, that session's owner and whether it is
\* non-null to the snapshot; new ones are added behind the pending ones.  So after
\* any sequence of deliveries the snapshot holds the last delivered session.
C5_NotificationsInOrder ==
    [][queue' # queue
       => \/ /\ queue # <<>>
             /\ queue' = Tail(queue)
             /\ session' = Head(queue)
             /\ user' = OwnerOrNull(Head(queue))
             /\ isAuthenticated' = (Head(queue) # Null)
          \/ /\ Len(queue') > Len(queue)
             /\ SubSeq(queue', 1, Len(queue)) = queue]_vars

\* The older of two different notifications has been delivered, the newer is pending.
C5_Witness ==
    /\ lastOp = "notification"
    /\ session = lastArg
    /\ queue # <<>>
    /\ Head(queue) # session
    /\ isAuthenticated = (session # Null)

(***************************************************************************)
(* Properties of the functions of lib/auth.ts (specification SpecFlows)    *)
(***************************************************************************)
\* C6: the snapshot changes only in a step of initialize(), of the notification
\* callback, of setSession() or of clearAuth(); no step of signInWithApple,
\* signInWithGoogle, signInWithGoogleToken or signOut changes it.
C6_OnlyStoreWrites ==
    [][snapshot' # snapshot
       => /\ flow' = flow
          /\ \/ \E i \in InitCalls :
                   init[i].pc \in {"resolved", "rejected"} /\ init'[i].pc = "done"
             \/ queue # <<>> /\ queue' = Tail(queue)
             \/ lastOp' \in {"setSession", "clearAuth"} /\ UNCHANGED backend]_vars

\* A sign-in has succeeded at the backend and returned success while the snapshot
\* is still unauthenticated: its notification is pending.
C6_Witness ==
    /\ flow.pc = "returned"
    /\ flow.kind \in {"apple", "google", "googleToken"}
    /\ flow.result = Some(Success)
    /\ ~isLoading
    /\ session = Null
    /\ queue # <<>>
    /\ backendSession # Null

\* C7 (as stated): no invocation ends with an exception leaving the function, and a
\* result with success false carries an error message.
C7_NeverThrows ==
    /\ flow.pc # "escaped"
    /\ flow.pc = "returned" /\ ~flow.result[1].success => flow.result[1].error # None

\* The outcome of a call that lets the invocation go on to the next call.
StepSucceeded(call) ==
    /\ call.out.status = "returned"
    /\ call.out.error = None
    /\ call.op = "isAvailableAsync" => call.out.flag
    /\ call.op \in {"signInAsync", "signInWithOAuth"} => TruthyStr(call.out.data)
    /\ call.op = "openAuthSessionAsync" => call.out.type = "success" /\ TruthyStr(call.out.data)

\* C8: within one invocation no external operation is called twice, and every call
\* but the last one succeeded: after a failing step no further call is made.
C8_NoRetry ==
    /\ \A j, k \in DOMAIN flow.calls : j # k => flow.calls[j].op # flow.calls[k].op
    /\ \A j \in 1..(Len(flow.calls) - 1) : StepSucceeded(flow.calls[j])

\* An invocation has returned failure after a later step than the first failed.
C8_Witness ==
    /\ flow.pc = "returned"
    /\ Len(flow.calls) >= 3
    /\ ~StepSucceeded(Last(flow.calls))
    /\ ~flow.result[1].success

BackendOps == {"signInWithIdToken", "signInWithOAuth", "auth.setSession", "auth.signOut"}

\* C9: a backend call that returned an error is the last call of its invocation,
\* and the invocation returns success false with the error's message unchanged.
C9_BackendErrorVerbatim ==
    \A j \in DOMAIN flow.calls :
        (flow.calls[j].op \in BackendOps /\ flow.calls[j].out.error # None)
        => /\ j = Len(flow.calls)
           /\ flow.pc \in {"await", "returned"}
           /\ flow.pc = "returned" => flow.result = Some(Failure(flow.calls[j].out.error[1]))

\* signInWithGoogle has returned the error message of a failed session install.
C9_Witness ==
    /\ flow.pc = "returned"
    /\ flow.kind = "google"
    /\ Last(flow.calls).op = "auth.setSession"
    /\ LastOut.error \in {Some(m) : m \in BackendErrors}
    /\ flow.result = Some([success |-> FALSE, error |-> LastOut.error])

\* C10: when the availability check returned false, signInWithApple makes no other
\* call (no random bytes, no digest, no credential request, no backend exchange)
\* and returns success false with 'Apple Sign-In is not available on this device'.
C10_AppleUnavailable ==
    (/\ flow.kind = "apple"
     /\ flow.calls[1].out.status = "returned"
     /\ ~flow.calls[1].out.flag)
    => /\ Len(flow.calls) = 1
       /\ flow.calls[1].op = "isAvailableAsync"
       /\ flow.rawNonce = None
       /\ flow.hashedNonce = None
       /\ flow.pc \in {"await", "returned"}
       /\ flow.pc = "returned" => flow.result = Some(Failure(MsgAppleUnavailable))

\* signInWithApple has returned on a device without Apple sign-in.
C10_Witness ==
    /\ flow.kind = "apple"
    /\ flow.pc = "returned"
    /\ flow.calls[1].out.status = "returned"
    /\ ~flow.calls[1].out.flag
    /\ flow.result[1].error = Some(MsgAppleUnavailable)

\* C11: when the credential request of signInWithApple returned a credential without
\* an identity token, it is the last call of the invocation: the backend exchange
\* is not called, and the invocation returns success false with
\* 'No identity token received from Apple'.
C11_NoIdentityToken ==
    \A j \in DOMAIN flow.calls :
        (/\ flow.kind = "apple"
         /\ flow.calls[j].op = "signInAsync"
         /\ flow.calls[j].out.status = "returned"
         /\ ~TruthyStr(flow.calls[j].out.data))
        => /\ j = Len(flow.calls)
           /\ \A k \in DOMAIN flow.calls : flow.calls[k].op # "signInWithIdToken"
           /\ flow.pc \in {"await", "returned"}
           /\ flow.pc = "returned" => flow.result = Some(Failure(MsgNoIdentityToken))

\* signInWithApple has returned after a credential whose identityToken is null.
C11_Witness ==
    /\ flow.kind = "apple"
    /\ flow.pc = "returned"
    /\ Last(flow.calls).op = "signInAsync"
    /\ LastOut.status = "returned"
    /\ LastOut.data = None
    /\ flow.result[1].error = Some(MsgNoIdentityToken)

\* A thrown value that signals a cancelled credential request: an Error whose
\* message contains 'cancelled', or any value whose code is ERR_REQUEST_CANCELED.
SignalsCancel(t) ==
    \/ t.isError /\ \E k \in DOMAIN t.message : t.message[k] = "cancelled"
    \/ ~t.nullish /\ t.code = <<<<"ERR_REQUEST_CANCELED">>>>

\* C12: when the credential request of signInWithApple was cancelled, signalled by
\* an Error whose message contains 'cancelled' or by a thrown value, Error or not,
\* whose code is ERR_REQUEST_CANCELED, the invocation makes no further call and
\* returns success false with 'Sign-in was cancelled'.
C12_AppleCancelled ==
    \A j \in DOMAIN flow.calls :
        (/\ flow.kind = "apple"
         /\ flow.calls[j].op = "signInAsync"
         /\ flow.calls[j].out.status = "threw"
         /\ SignalsCancel(flow.calls[j].out.thrown))
        => /\ j = Len(flow.calls)
           /\ flow.pc \in {"await", "returned"}
           /\ flow.pc = "returned" => flow.result = Some(Failure(MsgCancelled))

\* signInWithApple has returned after the credential request threw a value that is
\* not an Error and carries the cancellation code.
C12_Witness ==
    /\ flow.kind = "apple"
    /\ flow.pc = "returned"
    /\ Last(flow.calls).op = "signInAsync"
    /\ LastOut.status = "threw"
    /\ ~LastOut.thrown.isError
    /\ LastOut.thrown.code = Some(CancelCode)
    /\ flow.result[1].error = Some(MsgCancelled)

\* C13: an invocation of signInWithApple that gets past the availability check asks
\* for random bytes once and hashes once; the credential request receives the
\* requested scopes and the hash, never the raw nonce; the backend exchange
\* receives the raw nonce made of this invocation's random bytes, never the hash;
\* and the nonce sent to Apple is the digest of the nonce sent to the backend.
C13_NoncePair ==
    flow.kind = "apple"
    => /\ \A j, k \in DOMAIN flow.calls :
             (/\ flow.calls[j].op = flow.calls[k].op
              /\ flow.calls[j].op \in {"getRandomBytesAsync", "digestStringAsync"})
             => j = k
       /\ \A j \in DOMAIN flow.calls :
             /\ flow.calls[j].op = "signInAsync"
                => /\ j = 4
                   /\ flow.calls[2].op = "getRandomBytesAsync"
                   /\ flow.calls[3].op = "digestStringAsync"
                   /\ Len(flow.calls[j].args) = 2
                   /\ flow.calls[j].args[2] = <<"sha256">> \o Hex(flow.calls[2].out.data[1])
                   /\ flow.calls[j].args[2] # Hex(flow.calls[2].out.data[1])
             /\ flow.calls[j].op = "signInWithIdToken"
                => /\ j = 5
                   /\ flow.calls[4].op = "signInAsync"
                   /\ Len(flow.calls[j].args) = 3
                   /\ flow.calls[j].args[2] = flow.calls[4].out.data[1]
                   /\ flow.calls[j].args[3] = Hex(flow.calls[2].out.data[1])
                   /\ flow.calls[4].args[2] = <<"sha256">> \o flow.calls[j].args[3]

\* The backend exchange of signInWithApple has been called with the raw nonce whose
\* digest went to the credential request, and has succeeded.
C13_Witness ==
    /\ flow.kind = "apple"
    /\ flow.pc = "returned"
    /\ Len(flow.calls) = 5
    /\ flow.calls[5].op = "signInWithIdToken"
    /\ flow.calls[5].out.status = "returned"
    /\ flow.calls[5].out.error = None
    /\ flow.calls[2].out.data[1][1] = 0
    /\ Len(flow.calls[5].args[3]) = 2 * NonceLength
    /\ flow.calls[4].args[2] = Digest(flow.calls[5].args[3])
    /\ flow.result = Some(Success)

\* C14: when signInWithOAuth resolved without an error and without a URL,
\* signInWithGoogle makes no other call (the browser session is never opened) and
\* returns success false with 'No OAuth URL returned from Supabase'.
C14_NoOAuthUrl ==
    (/\ flow.kind = "google"
     /\ flow.calls[1].out.status = "returned"
     /\ flow.calls[1].out.error = None
     /\ ~TruthyStr(flow.calls[1].out.data))
    => /\ Len(flow.calls) = 1
       /\ flow.calls[1].op = "signInWithOAuth"
       /\ \A k \in DOMAIN flow.calls : flow.calls[k].op # "openAuthSessionAsync"
       /\ flow.pc \in {"await", "returned"}
       /\ flow.pc = "returned" => flow.result = Some(Failure(MsgNoOAuthUrl))

\* signInWithGoogle has returned after an OAuth start that gave no URL.
C14_Witness ==
    /\ flow.kind = "google"
    /\ flow.pc = "returned"
    /\ Len(flow.calls) = 1
    /\ LastOut.status = "returned"
    /\ LastOut.error = None
    /\ LastOut.data = None
    /\ flow.result[1].error = Some(MsgNoOAuthUrl)

\* The fragment of url (what follows '#') has the parameter name=value.
FragmentHas(url, name, value) ==
    \E h \in DOMAIN url :
        /\ url[h] = "#"
        /\ \A g \in 1..(h - 1) : url[g] # "#"
        /\ \E k \in (h + 1)..(Len(url) - 2) :
              /\ url[k - 1] \in {"#", "&"}
              /\ url[k] = name
              /\ url[k + 1] = "="
              /\ url[k + 2] = value
              /\ k + 2 < Len(url) => url[k + 3] = "&"

\* The token values of the callback URLs.
TokenValues == {"A", "B"}

\* The invocation of signInWithGoogle is at or past call j, the browser session,
\* which ended with success and a URL whose fragment has access_token=a and
\* refresh_token=b.
BrowserGaveTokens(j, a, b) ==
    /\ flow.kind = "google"
    /\ flow.calls[j].op = "openAuthSessionAsync"
    /\ flow.calls[j].out.status = "returned"
    /\ flow.calls[j].out.type = "success"
    /\ flow.calls[j].out.data # <<>>
    /\ FragmentHas(flow.calls[j].out.data[1], "access_token", a)
    /\ FragmentHas(flow.calls[j].out.data[1], "refresh_token", b)

\* C15: when the browser session ended with success and a callback URL whose
\* fragment has access_token=A and refresh_token=B, signInWithGoogle goes on to one
\* call of the session install, with { access_token: A, refresh_token: B }, makes
\* no call after it, and returns success when the install reported no error.
C15_InstallsTokens ==
    \A j \in DOMAIN flow.calls : \A a, b \in TokenValues :
        BrowserGaveTokens(j, a, b)
        => /\ flow.pc \in {"await", "returned"}
           /\ flow.pc = "returned" => Len(flow.calls) = j + 1
           /\ Len(flow.calls) > j
              => /\ Len(flow.calls) = j + 1
                 /\ flow.calls[j + 1].op = "auth.setSession"
                 /\ flow.calls[j + 1].args = <<<<a>>, <<b>>>>
                 /\ (/\ flow.pc = "returned"
                     /\ flow.calls[j + 1].out.status = "returned"
                     /\ flow.calls[j + 1].out.error = <<>>)
                    => flow.result = <<[success |-> TRUE, error |-> <<>>]>>

\* signInWithGoogle has returned success after installing the tokens of a callback
\* URL that names the refresh token first.
C15_Witness ==
    /\ flow.kind = "google"
    /\ flow.pc = "returned"
    /\ Len(flow.calls) = 3
    /\ BrowserGaveTokens(2, "A", "B")
    /\ flow.calls[2].out.data[1][Len(getRedirectUri) + 2] = "refresh_token"
    /\ flow.calls[3].args = <<<<"A">>, <<"B">>>>
    /\ flow.calls[3].out.error = None
    /\ flow.result = Some(Success)

\* The text between the first 'error_description=' of url and the next '&'.
ErrorDescriptionValue(url) ==
    LET at == { k \in 1..(Len(url) - 1) : url[k] = "error_description" /\ url[k + 1] = "=" }
        k == CHOOSE h \in at : \A g \in at : h <= g
        stops == { e \in (k + 2)..Len(url) : url[e] = "&" }
        e == IF stops = {} THEN Len(url) + 1 ELSE CHOOSE h \in stops : \A g \in stops : h <= g
    IN SubSeq(url, k + 2, e - 1)

\* url carries an error_description parameter whose value decodes to a text that
\* is not empty; a value with a malformed escape has no decoded value.
HasDecodedDescription(url) ==
    /\ \E k \in 1..(Len(url) - 1) : url[k] = "error_description" /\ url[k + 1] = "="
    /\ ErrorDescriptionValue(url) # <<>>
    /\ \A k \in DOMAIN ErrorDescriptionValue(url) : ErrorDescriptionValue(url)[k] # "%"

\* The percent-decoded value of the error_description parameter of url.
DecodedDescription(url) ==
    [k \in DOMAIN ErrorDescriptionValue(url) |->
        IF ErrorDescriptionValue(url)[k] = "%20" THEN " " ELSE ErrorDescriptionValue(url)[k]]

\* C16 (as stated): after a browser session that ended with success and a URL,
\* signInWithGoogle goes on to the session install when the fragment has both
\* tokens; otherwise it makes no further call and returns success false, with the
\* decoded error_description when the URL has one that is not empty, and with
\* 'No authentication tokens received' in every other case.
C16_CallbackClassified ==
    \A j \in DOMAIN flow.calls :
        (/\ flow.kind = "google"
         /\ flow.calls[j].op = "openAuthSessionAsync"
         /\ flow.calls[j].out.status = "returned"
         /\ flow.calls[j].out.type = "success"
         /\ flow.calls[j].out.data # <<>>
         /\ flow.calls[j].out.data[1] # <<>>)
        => LET url == flow.calls[j].out.data[1]
           IN IF \E a, b \in TokenValues : /\ FragmentHas(url, "access_token", a)
                                           /\ FragmentHas(url, "refresh_token", b)
              THEN /\ flow.pc = "returned" => Len(flow.calls) = j + 1
                   /\ Len(flow.calls) > j => flow.calls[j + 1].op = "auth.setSession"
              ELSE /\ Len(flow.calls) = j
                   /\ flow.pc = "returned"
                      => flow.result = <<[success |-> FALSE,
                                          error |-> <<IF HasDecodedDescription(url)
                                                      THEN DecodedDescription(url)
                                                      ELSE MsgNoTokens>>]>>

\* C17: when the browser session ended with type cancel or dismiss, signInWithGoogle
\* returns success false with 'Sign-in was cancelled'; when it ended in any other
\* way that is not a success with a URL (type success without a URL included), it
\* returns success false with 'Authentication failed'; in both cases the browser
\* session is the last call: the session install is not called.
C17_BrowserNotSuccessful ==
    \A j \in DOMAIN flow.calls :
        (/\ flow.kind = "google"
         /\ flow.calls[j].op = "openAuthSessionAsync"
         /\ flow.calls[j].out.status = "returned"
         /\ ~(flow.calls[j].out.type = "success" /\ TruthyStr(flow.calls[j].out.data)))
        => /\ j = Len(flow.calls)
           /\ \A k \in DOMAIN flow.calls : flow.calls[k].op # "auth.setSession"
           /\ flow.pc \in {"await", "returned"}
           /\ flow.pc = "returned"
              => flow.result = <<[success |-> FALSE,
                                  error |-> <<IF flow.calls[j].out.type \in {"cancel", "dismiss"}
                                              THEN <<"Sign-in", "was", "cancelled">>
                                              ELSE <<"Authentication", "failed">>>>]>>

\* signInWithGoogle has returned after the user dismissed the browser session.
C17_Witness ==
    /\ flow.kind = "google"
    /\ flow.pc = "returned"
    /\ Len(flow.calls) = 2
    /\ LastOut.status = "returned"
    /\ LastOut.type = "dismiss"
    /\ flow.result = Some(Failure(MsgCancelled))

(***************************************************************************)
(* Properties of the routing (specification SpecApp)                       *)
(***************************************************************************)
\* C18: an evaluation of the routing gate, with the isAuthenticated, isLoading and
\* area it ran with, issues at most one navigation: none while isLoading; to the
\* login screen when not authenticated and outside the auth area; to the protected
\* entry screen when authenticated and in the auth area; none otherwise.
C18_GateNavigation ==
    router.by = "useProtectedRoute"
    => LET authed == gateSeen[1]
           loading == gateSeen[2]
           area == gateSeen[3]
       IN /\ Len(router.issued) <= 1
          /\ loading => router.issued = <<>>
          /\ (~loading /\ ~authed /\ area # "(auth)") => router.issued = <<"/(auth)/login">>
          /\ (~loading /\ authed /\ area = "(auth)") => router.issued = <<"/(protected)">>
          /\ (~loading /\ authed /\ area # "(auth)") => router.issued = <<>>
          /\ (~loading /\ ~authed /\ area = "(auth)") => router.issued = <<>>

\* The gate has sent an unauthenticated user from the protected area to the login
\* screen.
C18_Witness ==
    /\ router.by = "useProtectedRoute"
    /\ gateSeen = <<FALSE, FALSE, "(protected)">>
    /\ router.issued = <<LoginHref>>
    /\ segments = "(auth)"
    /\ ~isAuthenticated

\* C19 (as stated): a step in which a component navigates to the protected entry
\* screen (the routing gate, IndexScreen, or the login screen's handleSuccess) is
\* taken only while isAuthenticated is true in the store.
C19_ProtectedOnlyWhenAuthenticated ==
    [][(/\ \E k \in DOMAIN router'.issued : router'.issued[k] = "/(protected)"
        /\ \/ router' # router
           \/ gateSeen' # gateSeen
           \/ googleButton.pc = "await" /\ googleButton'.pc = "idle" /\ reported'.onSuccess)
       => isAuthenticated]_vars

(***************************************************************************)
(* Properties of the Google sign-in button (specification SpecButton)      *)
(***************************************************************************)
\* The browser session of the invocation ended with type cancel or dismiss.
UserCancelled ==
    /\ Last(flow.calls).op = "openAuthSessionAsync"
    /\ LastOut.status = "returned"
    /\ LastOut.type \in {"cancel", "dismiss"}

\* C20 (as stated): when handlePress of GoogleSignInButton takes the result of
\* signInWithGoogle(), it calls onSuccess exactly when the result is a success, and
\* onError with the result's error exactly when the result is a failure that is
\* not a cancelled or dismissed browser session.
C20_ButtonReports ==
    [][(googleButton.pc = "await" /\ googleButton'.pc = "idle" /\ flow.pc = "returned")
       => /\ reported'.onSuccess = flow.result[1].success
          /\ reported'.onError = IF ~flow.result[1].success /\ ~UserCancelled
                                 THEN flow.result[1].error
                                 ELSE <<>>]_vars

(***************************************************************************)
(* Properties of the login screen's buttons (specification SpecLogin)      *)
(***************************************************************************)
\* C21 (as stated): when handlePress of AppleSignInButton takes the result
\* 'Sign-in was cancelled' of signInWithApple(), it does not call onError.
C21_AppleCancelSilent ==
    [][(/\ appleButton.pc = "await"
        /\ appleButton'.pc = "idle"
        /\ flow.pc = "returned"
        /\ flow.result = <<[success |-> FALSE, error |-> <<<<"Sign-in", "was", "cancelled">>>>]>>)
       => reported'.onError = <<>>]_vars

(***************************************************************************)
(* Properties of a session's life in the app (specification SpecSession)   *)
(***************************************************************************)
\* The area the routing keeps a user in: the protected area with a session, the
\* auth area without one.
HomeArea == IF isAuthenticated THEN "(protected)" ELSE "(auth)"

\* initialize() has completed.
Initialized == init[1].pc = "done" /\ ~isLoading

\* C22: after initialize() has completed, once the notification of a sign-in has
\* put a session into the store the user is eventually in the protected area, and
\* once the notification of a sign-out has taken it out the user is eventually on
\* the login screen, unless the session changes again first; and while no sign-in
\* is in progress and the snapshot stays as it is, no step moves the user out of
\* the area reached.
C22_SessionChangeRoutes ==
    /\ (Initialized /\ isAuthenticated) ~> (segments = "(protected)" \/ ~isAuthenticated)
    /\ (Initialized /\ ~isAuthenticated) ~> (segments = "(auth)" \/ isAuthenticated)
    /\ [][(/\ Initialized
           /\ segments = HomeArea
           /\ googleButton.inFlight = 0
           /\ isAuthenticated' = isAuthenticated)
          => segments' = segments]_vars

\* The notification of a successful Google sign-in has been delivered and the gate
\* has brought the user from the login screen to the protected area.
C22_Witness ==
    /\ Initialized
    /\ isAuthenticated
    /\ lastOp = "notification"
    /\ session = backendSession
    /\ queue = <<>>
    /\ segments = "(protected)"
    /\ router = [by |-> "useProtectedRoute", issued |-> <<"/(protected)">>]
    /\ gateSeen = <<TRUE, FALSE, "(auth)">>
    /\ flow.kind = "google"
    /\ flow.pc = "returned"
    /\ flow.result = Some(Success)


(***************************************************************************)
(* Properties of the store over repeated initialization (specification     *)
(* Spec)                                                                   *)
(***************************************************************************)
\* The session fetch of no initialize() call has resolved or failed yet.
NoFetchSettled == \A i \in InitCalls : init[i].pc \in {"idle", "getSession"}

\* C23: isLoading is true as long as no session fetch of initialize() has resolved
\* or failed, whatever setSession() and clearAuth() calls have run, and no step
\* sets isLoading back to true once it is false.
C23_LoadingOnce ==
    /\ [](NoFetchSettled => isLoading)
    /\ [][~isLoading => ~isLoading']_vars

\* clearAuth() has run while the first fetch is pending and isLoading is still true.
C23_Witness ==
    /\ init[1].pc = "getSession"
    /\ init[1].raced
    /\ lastOp = "clearAuth"
    /\ isLoading


\* C24 (as stated): after an initialize() call has set the snapshot from a
\* successful fetch and registered the listener, whenever no notification is
\* waiting to be delivered and the snapshot was last written by initialize() or by
\* the listener, the store's session is the backend's current session.
C24_StoreFollowsBackend ==
    (/\ listeners > 0
     /\ queue = <<>>
     /\ lastOp \in {"initialize", "notification"})
    => session = backendSession


(***************************************************************************)
(* Properties of the app after a failed session fetch (specification       *)
(* SpecApp: initialize() is called once and nothing calls setSession())    *)
(***************************************************************************)
\* The one initialize() call has ended in its catch block.
FetchFailed == init[1].pc = "done" /\ lastOp = "initializeFailed"

\* C25: when the session fetch of initialize() fails no listener is registered;
\* from then on no notification is ever pending and the snapshot stays without a
\* session whatever the backend's session becomes (a successful sign-in
\* included), and every run of the routing gate outside the auth area sends the
\* user to the login screen.
C25_FailedFetchFreezes ==
    /\ [][(init[1].pc = "rejected" /\ init[1].pc' = "done") => listeners' = 0]_vars
    /\ [](FetchFailed => /\ listeners = 0
                         /\ queue = <<>>
                         /\ session = Null
                         /\ user = Null
                         /\ ~isAuthenticated
                         /\ ~isLoading)
    /\ [][(FetchFailed /\ gateSeen' # gateSeen /\ segments # "(auth)")
          => (segments' = "(auth)" /\ router'.issued = <<LoginHref>>)]_vars

\* After a failed fetch a Google sign-in has succeeded at the backend, the login
\* screen has navigated to the protected area and the gate has sent the user back.
C25_Witness ==
    /\ FetchFailed
    /\ backendSession \in Sessions
    /\ reported.onSuccess
    /\ router = [by |-> "useProtectedRoute", issued |-> <<LoginHref>>]
    /\ gateSeen = <<FALSE, FALSE, "(protected)">>
    /\ segments = "(auth)"
    /\ ~isAuthenticated


(***************************************************************************)
(* Properties of the routing system (specification SpecRouting)            *)
(***************************************************************************)
\* Neither the effect of useProtectedRoute nor the <Redirect> of IndexScreen has
\* anything left to do.
AtRest == ~isLoading /\ gateSeen = GateDeps /\ segments # "index"

\* C26: in a behaviour in which isLoading becomes false and the snapshot changes
\* only finitely often, the gate and IndexScreen are at rest again and again (for
\* good when no link is opened any more); at rest a user without a session is in
\* the auth area and a user with one is outside it; and on the index screen the
\* gate navigates nowhere else than IndexScreen does.
C26_RoutingSettles ==
    /\ (<>(~isLoading) /\ <>[][snapshot' = snapshot]_vars) => []<>AtRest
    /\ [](AtRest => IF isAuthenticated THEN segments # "(auth)" ELSE segments = "(auth)")
    /\ [][(segments = "index" /\ router'.by = "IndexScreen" /\ segments' # segments)
          => GateNavigations(isLoading, isAuthenticated, segments) \in {<<>>, router'.issued}]_vars

\* IndexScreen has redirected a user without a session to the login screen, the
\* gate has run there and navigated nowhere: the routing is at rest.
C26_Witness ==
    /\ AtRest
    /\ ~isAuthenticated
    /\ segments = "(auth)"
    /\ gateSeen = <<FALSE, FALSE, "(auth)">>
    /\ router = [by |-> "useProtectedRoute", issued |-> <<>>]
    /\ queue = <<>>


(***************************************************************************)
(* Properties of the two sign-in buttons (specification SpecLogin)         *)
(***************************************************************************)
\* C27: each sign-in button has at most one invocation of its sign-in function in
\* flight, its isLoading is true exactly while that invocation is in flight, and
\* the step of handlePress that takes the outcome of the invocation (a result or
\* a thrown value) leaves isLoading false.
C27_OneFlowPerButton ==
    /\ [](/\ googleButton.inFlight \in {0, 1}
          /\ appleButton.inFlight \in {0, 1}
          /\ googleButton.isLoading <=> googleButton.inFlight = 1
          /\ appleButton.isLoading <=> appleButton.inFlight = 1)
    /\ [][/\ (googleButton.pc = "await" /\ googleButton'.pc = "idle")
             => (~googleButton'.isLoading /\ googleButton'.inFlight = 0)
          /\ (appleButton.pc = "await" /\ appleButton'.pc = "idle")
             => (~appleButton'.isLoading /\ appleButton'.inFlight = 0)
          /\ googleButton.isLoading => googleButton'.inFlight <= googleButton.inFlight
          /\ appleButton.isLoading => appleButton'.inFlight <= appleButton.inFlight]_vars

\* The Apple button is loading and its signInWithApple() call has thrown: handlePress
\* is about to leave through its finally block.
C27_Witness ==
    /\ appleButton.isLoading
    /\ appleButton.inFlight = 1
    /\ appleButton.pc = "await"
    /\ flow.kind = "apple"
    /\ flow.pc = "escaped"
    /\ ~googleButton.isLoading


\* A step of the listener callback: the oldest notification is taken.
NotificationApplied == queue # <<>> /\ queue' = Tail(queue)

\* C28: every initialize() call that resumes after a successful fetch registers
\* one more listener and no step removes one, so there are never more listeners
\* than completed calls; a session change of the backend is queued once per
\* listener; each application of a notification leaves the snapshot that a single
\* application leaves (the notified session, its user, isLoading untouched), and
\* the application of a further copy right after the first changes nothing.
C28_ListenersAccumulate ==
    /\ [][\A i \in InitCalls :
            (init[i].pc = "resolved" /\ init'[i].pc = "done") => listeners' = listeners + 1]_vars
    /\ [][listeners' >= listeners]_vars
    /\ [](listeners <= Cardinality({i \in InitCalls : init[i].pc = "done"}))
    /\ [][Len(queue') > Len(queue) => queue' = queue \o Copies(backendSession', listeners)]_vars
    /\ [][NotificationApplied
          => /\ session' = Head(queue)
             /\ user' = OwnerOrNull(Head(queue))
             /\ isAuthenticated' = (Head(queue) # Null)
             /\ isLoading' = isLoading
             /\ listeners' = listeners]_vars
    /\ [][(NotificationApplied /\ lastOp = "notification" /\ lastArg = Head(queue))
          => snapshot' = snapshot]_vars

\* Two initialize() calls have registered two listeners; the first copy of the
\* notification of s1 has been applied and the second is still to be delivered.
C28_Witness ==
    /\ listeners = 2
    /\ init[1].pc = "done"
    /\ init[2].pc = "done"
    /\ queue = <<"s1">>
    /\ lastOp = "notification"
    /\ lastArg = "s1"
    /\ session = "s1"
    /\ backendSession = "s1"


(***************************************************************************)
(* Properties of signInWithApple's error reporting (specification          *)
(* SpecFlows)                                                              *)
(***************************************************************************)
\* C29 (as stated): signInWithApple returns 'Sign-in was cancelled' only when its
\* credential request threw, and a value thrown by any other call is reported with
\* its own message, or with 'Unknown error occurred' when it is not an Error.
C29_CancelOnlyFromCredentialRequest ==
    (flow.kind = "apple" /\ flow.pc = "returned")
    => /\ flow.result = Some(Failure(MsgCancelled))
          => (Last(flow.calls).op = "signInAsync" /\ LastOut.status = "threw")
       /\ (LastOut.status = "threw" /\ Last(flow.calls).op # "signInAsync")
          => flow.result = Some(Failure(ErrorMessage(LastOut.thrown)))


(***************************************************************************)
(* Properties of create-planor-app (specification SpecCli)                 *)
(***************************************************************************)
\* The last run has reported success.
Succeeded == cli.pc = "exited" /\ cli.code = 0

\* C30: the download starts only with a non-empty name and a target that does not
\* exist, and a run that does not get there exits with code 1 having done nothing;
\* a run that reports success has cloned, removed the cli folder when the template
\* has one, and installed, in that order, and leaves no cli folder in the project;
\* a run in which the clone, the removal or the install failed exits with code 1.
C30_CliRun ==
    /\ [][(cli.pc # "clone" /\ cli'.pc = "clone")
          => (/\ cli'.name \notin {None, Some(<<>>)}
              /\ Resolve(cli'.name[1]) \notin cli.fs
              /\ cli'.fs = cli.fs)]_vars
    /\ [][(/\ cli.pc = "prompt" \/ cli'.runs # cli.runs
           /\ cli'.pc # "prompt"
           /\ \/ cli'.name \in {None, Some(<<>>)}
              \/ Resolve(cli'.name[1]) \in cli.fs)
          => (/\ cli'.pc = "exited"
              /\ cli'.code = 1
              /\ cli'.steps = <<>>
              /\ cli'.fs = cli.fs)]_vars
    /\ [](Succeeded
          => /\ cli.steps = IF cli.templateCli THEN <<"clone", "removeCli", "install">>
                             ELSE <<"clone", "install">>
             /\ CliDir(Resolve(cli.name[1])) \notin cli.fs
             /\ cli.failed = "none")
    /\ []((cli.pc = "exited" /\ cli.failed # "none") => cli.code = 1)
    /\ [][(cli.pc \in {"clone", "install"} /\ cli'.pc = "exited" /\ cli'.code # 1)
          => (cli.pc = "install" /\ cli'.failed = "none")]_vars

\* A run has reported success for a template that has a cli folder.
C30_Witness ==
    /\ Succeeded
    /\ cli.templateCli
    /\ cli.name = Some(<<"shop">>)
    /\ cli.steps = <<"clone", "removeCli", "install">>
    /\ Resolve(<<"shop">>) \in cli.fs

====
